---------------------------- MODULE Spec2Model ----------------------------
(***************************************************************************)
(* A model of the attack-data pipeline: DataPipeline (data_pipeline.py),   *)
(* its PipelineLogger (logging_utils.py) and the VertexAIProcessor         *)
(* (vertex_ai_utils.py).                                                   *)
(*                                                                         *)
(* Python values are modelled by what the code does with them: a value is  *)
(* a record [tag, n, s] (None, an int, a str as a sequence of characters,  *)
(* a float), a dict is a function from its keys to values, an exception    *)
(* is a record [kind, msg] whose msg is the text of str(e) as a sequence   *)
(* of tokens.                                                              *)
(***************************************************************************)
EXTENDS Integers, Sequences, FiniteSets, TLC

VARIABLES
    raw_data_list,      \* process_batch: the argument
    storeScript,        \* what the store answers to the put of item i
    endpointScript,     \* what the scoring endpoint answers for item i: it is
                        \* up or down for the whole run
    vertex_processor,   \* self.vertex_processor is not None
    pubsub_topic,       \* self.vertex_config.get('pubsub_topic') is truthy
    pc,                 \* position in the running operation
    i,                  \* process_batch: the loop index (1-based)
    item_result,        \* process_batch: the outcome under construction
    exc,                \* the exception in flight, NoExc when none
    batch_results,      \* process_batch: the outcomes appended so far
    success_count,
    error_count,
    calls,              \* every stage invocation so far: [item, op, ok]
    trace,              \* per item, the stages it went through
    datastore,          \* the entities put so far; the key is the position
    logged,             \* what PipelineLogger wrote to its local sink
    t_raw,              \* transform_data called directly: the argument
    t_ret,              \* transform_data called directly: what it did
    p_data,             \* process_and_predict called directly: the argument
    p_env,              \* a stage called directly: the topic given and what
                        \* the endpoint, the publisher and the store answer
    p_ret,              \* process_and_predict called directly: what it did
    s_ret,              \* ingest_to_datastore called directly: what it did
    c_env,              \* DataPipeline(...): the vertex_config given and what
                        \* the client constructors do
    c_ret,              \* DataPipeline(...): what the construction did
    l_path,             \* log_parser: the log_path argument, as its pieces
    l_file,             \* log_parser: the file at log_path
    l_ret,              \* parse_log_file(l_path): what it did
    l_label,            \* get_target_label(l_path): what it returned
    g_file,             \* ingest_data: the input file
    g_env,              \* ingest_data: the arguments and what the services do
    g_processor,        \* ingest_data: vertex_processor is not None
    g_i,                \* ingest_data: the position in data (1-based)
    g_entities,         \* ingest_data: the entities list
    g_written           \* ingest_data: the entities the store holds

vars ==
    << raw_data_list, storeScript, endpointScript, vertex_processor,
       pubsub_topic, pc, i, item_result, exc, batch_results, success_count,
       error_count, calls, trace, datastore, logged, t_raw, t_ret,
       p_data, p_env, p_ret, s_ret, c_env, c_ret, l_path, l_file, l_ret,
       l_label, g_file, g_env, g_processor, g_i, g_entities, g_written >>

\* the state of the construction, of log_parser and of ingest_data
ctorVars == << c_env, c_ret >>

parserVars == << l_path, l_file, l_ret, l_label >>

ingestVars == << g_file, g_env, g_processor, g_i, g_entities, g_written >>

\* the state of a stage called directly
stageVars == << p_data, p_env, p_ret, s_ret >>

---------------------------------------------------------------------------
(* Bounds of the model.                                                    *)

\* the longest input list process_batch is run on
MaxBatch == 2

\* the most items the input file of ingest_data holds
MaxItems == 2

---------------------------------------------------------------------------
(* Python values.                                                          *)

NoneV == [tag |-> "none", n |-> 0, s |-> << >>]

IntV(k) == [tag |-> "int", n |-> k, s |-> << >>]

StrV(cs) == [tag |-> "str", n |-> 0, s |-> cs]

FloatV(k) == [tag |-> "float", n |-> k, s |-> << >>]

\* bool(v)
Truthy(v) ==
    CASE v.tag = "none" -> FALSE
      [] v.tag = "str" -> v.s # << >>
      [] OTHER -> v.n # 0

DigitChars == <<"0", "1", "2", "3", "4", "5", "6", "7", "8", "9">>

IsDigit(c) == \E d \in 1..10 : DigitChars[d] = c

DigitValue(c) == (CHOOSE d \in 1..10 : DigitChars[d] = c) - 1

RECURSIVE ParseDigits(_, _)
ParseDigits(cs, acc) ==
    IF cs = << >> THEN acc
    ELSE ParseDigits(Tail(cs), acc * 10 + DigitValue(Head(cs)))

RECURSIVE IntToChars(_)
IntToChars(k) ==
    IF k < 10 THEN << DigitChars[k + 1] >>
    ELSE IntToChars(k \div 10) \o << DigitChars[(k % 10) + 1] >>

\* str(v), as characters
PyStr(v) ==
    CASE v.tag = "none" -> <<"N", "o", "n", "e">>
      [] v.tag = "str" -> v.s
      [] v.tag = "int" -> IntToChars(v.n)
      [] OTHER -> IntToChars(v.n) \o <<".", "0">>

LowerChars == <<"t", "c", "p", "u", "d">>

UpperChars == <<"T", "C", "P", "U", "D">>

UpperChar(c) ==
    IF \E k \in 1..Len(LowerChars) : LowerChars[k] = c
    THEN UpperChars[CHOOSE k \in 1..Len(LowerChars) : LowerChars[k] = c]
    ELSE c

\* str.upper()
PyUpper(cs) == [k \in 1..Len(cs) |-> UpperChar(cs[k])]

---------------------------------------------------------------------------
(* Exceptions.                                                             *)

NoExc == [kind |-> "none", msg |-> << >>]

Exc(kind, msg) == [kind |-> kind, msg |-> msg]

Raised(e) == e.kind # "none"

\* int(v): [exc, val]
PyInt(v) ==
    CASE v.tag = "none" ->
           [exc |-> Exc("TypeError", <<"int() argument must be a string or a number">>),
            val |-> 0]
      [] v.tag = "str" ->
           IF v.s # << >> /\ \A k \in 1..Len(v.s) : IsDigit(v.s[k])
           THEN [exc |-> NoExc, val |-> ParseDigits(v.s, 0)]
           ELSE [exc |-> Exc("ValueError", <<"invalid literal for int()">>), val |-> 0]
      [] OTHER -> [exc |-> NoExc, val |-> v.n]

\* float(v): [exc, val]
PyFloat(v) ==
    CASE v.tag = "none" ->
           [exc |-> Exc("TypeError", <<"float() argument must be a string or a number">>),
            val |-> 0]
      [] v.tag = "str" ->
           IF v.s # << >> /\ \A k \in 1..Len(v.s) : IsDigit(v.s[k])
           THEN [exc |-> NoExc, val |-> ParseDigits(v.s, 0)]
           ELSE [exc |-> Exc("ValueError", <<"could not convert string to float">>),
                 val |-> 0]
      [] OTHER -> [exc |-> NoExc, val |-> v.n]

---------------------------------------------------------------------------
(* PipelineLogger (logging_utils.py).                                      *)

\* the methods class PipelineLogger defines
PipelineLoggerMethods == {"log", "error", "warning", "info"}

\* self._log_context, passed as **kwargs at every call site
LogContextKeys == {"project_id", "datastore_kind", "datastore_namespace"}

Entry(level, message) == [level |-> level, message |-> message]

\* self.logger.<method>(message, <kwargs>, **self._log_context): the
\* exception the call raises, NoExc when it returns.  A method the class
\* does not define is an AttributeError; a keyword given twice is a
\* TypeError; whatever goes wrong inside log()/error() is caught there.
LoggerCall(method, kwargs) ==
    IF method \notin PipelineLoggerMethods
    THEN Exc("AttributeError",
             <<"'PipelineLogger' object has no attribute", method>>)
    ELSE IF kwargs \cap LogContextKeys # {}
    THEN Exc("TypeError", <<"got multiple values for keyword argument">>)
    ELSE NoExc

\* what a call that returned wrote to the local sink: log() writes the
\* levels INFO, WARNING and ERROR only
LocalSink(level, message) ==
    IF level \in {"INFO", "WARNING", "ERROR"}
    THEN << Entry(level, message) >>
    ELSE << >>

---------------------------------------------------------------------------
(* DataPipeline.transform_data (data_pipeline.py).                         *)

required_fields == <<"source_ip", "destination_ip", "protocol", "payload_size">>

\* datetime.utcnow().isoformat()
NowV == StrV(<<"n", "o", "w">>)

EmptyDict == [k \in {} |-> NoneV]

Has(d, k) == k \in DOMAIN d

\* [f for f in required_fields if f not in raw_data]
MissingFields(raw_data) ==
    SelectSeq(required_fields, LAMBDA f : ~Has(raw_data, f))

\* the message names missing_fields[0] only: the mutant of MissingFieldsError
MissingFieldsErrorFirst(missing_fields) ==
    Exc("ValueError", <<"Missing required fields:", Head(missing_fields)>>)

\* raise ValueError(f"Missing required fields: {', '.join(missing_fields)}")
MissingFieldsError(missing_fields) ==
    Exc("ValueError", <<"Missing required fields:">> \o missing_fields)

\* except (ValueError, TypeError, KeyError)
TransformCatches(e) == e.kind \in {"ValueError", "TypeError", "KeyError"}

\* raise ValueError(f"Data transformation error: {str(e)}") from e
TransformError(e) ==
    Exc("ValueError", <<"Data transformation error:">> \o e.msg)

KeyOrder ==
    <<"timestamp", "source_ip", "destination_ip", "protocol", "payload_size",
      "threat_score">>

\* json.dumps(raw_data)
JsonDumps(raw_data) ==
    StrV(<<"{">> \o SelectSeq(KeyOrder, LAMBDA k : Has(raw_data, k)) \o <<"}">>)

\* the datastore_data dict literal and the loop that copies the other keys
DatastoreData(raw_data, timestamp, payload) ==
    LET fixed == [timestamp |-> timestamp,
                  source_ip |-> StrV(PyStr(raw_data["source_ip"])),
                  destination_ip |-> StrV(PyStr(raw_data["destination_ip"])),
                  protocol |-> StrV(PyUpper(PyStr(raw_data["protocol"]))),
                  payload_size |-> IntV(payload),
                  processed_at |-> NowV,
                  source |-> StrV(<<"data_pipeline">>),
                  raw_data |-> JsonDumps(raw_data)]
        extra == {k \in DOMAIN raw_data :
                     k \notin DOMAIN fixed /\ raw_data[k] # NoneV}
    IN  [k \in DOMAIN fixed \cup extra |->
            IF k \in DOMAIN fixed THEN fixed[k] ELSE raw_data[k]]

\* the vertex_data dict literal, threat_score added when the raw record has it
VertexData(raw_data, timestamp, payload, withScore, score) ==
    LET base == [source_ip |-> StrV(PyStr(raw_data["source_ip"])),
                 destination_ip |-> StrV(PyStr(raw_data["destination_ip"])),
                 protocol |-> StrV(PyUpper(PyStr(raw_data["protocol"]))),
                 payload_size |-> IntV(payload),
                 timestamp |-> timestamp]
    IN  IF withScore
        THEN [k \in DOMAIN base \cup {"threat_score"} |->
                 IF k = "threat_score" THEN FloatV(score) ELSE base[k]]
        ELSE base

\* The body of the try block, up to the exception it raises:
\* [exc, datastore_data, vertex_data, logs].
TransformTry(raw_data) ==
    LET missing_fields == MissingFields(raw_data)
        failed(e, logs) ==
            [exc |-> e, datastore_data |-> EmptyDict, vertex_data |-> EmptyDict,
             logs |-> logs]
    IN
    IF missing_fields # << >> THEN failed(MissingFieldsError(missing_fields), << >>)
    ELSE
    LET given == Has(raw_data, "timestamp") /\ Truthy(raw_data["timestamp"])
        timestamp == IF given THEN raw_data["timestamp"] ELSE NowV
        dbg1 == IF given THEN NoExc ELSE LoggerCall("debug", {})
    IN
    IF Raised(dbg1) THEN failed(dbg1, << >>)
    ELSE
    LET payload == PyInt(raw_data["payload_size"])
        withScore == Has(raw_data, "threat_score")
        score == IF withScore THEN PyFloat(raw_data["threat_score"])
                 ELSE [exc |-> NoExc, val |-> 0]
        dbg2 == LoggerCall("debug",
                           {"input_keys", "output_datastore_keys",
                            "output_vertex_keys"})
        logs1 == IF given THEN << >>
                 ELSE LocalSink("DEBUG", "Using current time for missing timestamp")
    IN
    IF Raised(payload.exc) THEN failed(payload.exc, logs1)
    ELSE IF Raised(score.exc) THEN failed(score.exc, logs1)
    ELSE IF Raised(dbg2) THEN failed(dbg2, logs1)
    ELSE [exc |-> NoExc,
          datastore_data |-> DatastoreData(raw_data, timestamp, payload.val),
          vertex_data |->
              VertexData(raw_data, timestamp, payload.val, withScore, score.val),
          logs |-> logs1 \o LocalSink("DEBUG", "Data transformation completed")]

\* transform_data: the try block and its except clause
transform_data(raw_data) ==
    LET t == TransformTry(raw_data)
    IN  IF Raised(t.exc) /\ TransformCatches(t.exc)
        THEN LET err == LoggerCall("error",
                                   {"error", "input_type", "input_keys", "exc_info"})
             IN  IF Raised(err)
                 THEN [t EXCEPT !.exc = err]
                 ELSE [t EXCEPT !.exc = TransformError(t.exc),
                                !.logs = t.logs \o
                                    LocalSink("ERROR", "Data transformation failed")]
        ELSE t


---------------------------------------------------------------------------
(* DataPipeline.ingest_to_datastore (data_pipeline.py).                    *)

Call(item, op, ok) == [item |-> item, op |-> op, ok |-> ok]

\* what datastore_client.put raises when the store refuses the write
StorageError == Exc("GoogleAPIError", <<"Datastore put failed">>)

\* [exc, key, store, logs, calls]; answer is what the store does with the put
ingest_to_datastore(data, answer, store, item) ==
    LET put == IF answer = "ok" THEN NoExc ELSE StorageError
        info == IF Raised(put) THEN NoExc ELSE LoggerCall("info", {"entity_key"})
        e == IF Raised(put) THEN put ELSE info
        store1 == IF Raised(put) THEN store ELSE Append(store, data)
        called == << Call(item, "put", ~Raised(put)) >>
    IN  IF ~Raised(e)
        THEN [exc |-> NoExc, key |-> IntV(Len(store1)), store |-> store1,
              logs |-> LocalSink("INFO", "Successfully ingested data to Datastore"),
              calls |-> called]
        ELSE LET err == LoggerCall("error", {"error", "data"})
             IN  [exc |-> IF Raised(err) THEN err ELSE e,
                  key |-> NoneV, store |-> store1,
                  logs |-> IF Raised(err) THEN << >>
                           ELSE LocalSink("ERROR", "Error ingesting data to Datastore"),
                  calls |-> called]

---------------------------------------------------------------------------
(* VertexAIProcessor (vertex_ai_utils.py).                                 *)

feature_fields == <<"feat1", "feat2", "feat3", "feat4">>

\* the fields the feature list is built from
feature_sent == <<"feat1", "feat2">>

\* preprocess_data: [exc, features]
preprocess_data(data) ==
    LET missing_fields == SelectSeq(feature_fields, LAMBDA f : ~Has(data, f))
    IN  IF missing_fields # << >>
        THEN [exc |-> MissingFieldsError(missing_fields), features |-> << >>]
        ELSE LET fl == [k \in 1..Len(feature_sent) |-> PyFloat(data[feature_sent[k]])]
                 bad == {k \in 1..Len(fl) : Raised(fl[k].exc)}
             IN  IF bad # {}
                 THEN [exc |-> fl[CHOOSE k \in bad : \A m \in bad : k <= m].exc,
                       features |-> << >>]
                 ELSE [exc |-> NoExc,
                       features |-> << [k \in 1..Len(fl) |-> fl[k].val] >>]

\* raise GoogleAPIError(f"Vertex AI prediction failed: {str(e)}") from e
PredictionError(e) ==
    Exc("GoogleAPIError", <<"Vertex AI prediction failed:">> \o e.msg)

\* what the scoring endpoint can do with a request
EndpointAnswers == {"ok", "transport", "malformed"}

\* send_to_vertex_ai past the call of preprocess_data: [exc, result, calls]
SendRequest(pre, answer, item) ==
    IF Raised(pre.exc)
    THEN [exc |-> PredictionError(pre.exc), result |-> NoneV, calls |-> << >>]
    ELSE IF answer = "transport"
    THEN [exc |-> PredictionError(Exc("HTTPError", <<"request failed">>)),
          result |-> NoneV, calls |-> << Call(item, "post", FALSE) >>]
    ELSE IF answer = "malformed"
    THEN [exc |-> PredictionError(Exc("KeyError", <<"'predictions'">>)),
          result |-> NoneV, calls |-> << Call(item, "post", FALSE) >>]
    ELSE [exc |-> NoExc,
          result |-> [prediction |-> IntV(1),
                      model |-> StrV(<<"cloud-function-model">>),
                      endpoint |-> StrV(<<"url">>),
                      timestamp |-> NowV,
                      features |-> pre.features],
          calls |-> << Call(item, "post", TRUE) >>]

\* send_to_vertex_ai: [exc, result, calls]
send_to_vertex_ai(data, answer, item) ==
    SendRequest(preprocess_data(data), answer, item)

\* raise GoogleAPIError(f"Pub/Sub publish failed: {str(e)}") from e
PublishError == Exc("GoogleAPIError", <<"Pub/Sub publish failed:">>)

\* publish_to_pubsub: [exc, message_id, calls]
publish_to_pubsub(answer, item) ==
    IF answer = "ok"
    THEN [exc |-> NoExc, message_id |-> StrV(<<"m", "1">>),
          calls |-> << Call(item, "publish", TRUE) >>]
    ELSE [exc |-> PublishError, message_id |-> NoneV,
          calls |-> << Call(item, "publish", FALSE) >>]

\* result['pubsub_message_id'] = message_id
WithMessageId(result, message_id) ==
    [k \in DOMAIN result \cup {"pubsub_message_id"} |->
        IF k = "pubsub_message_id" THEN message_id ELSE result[k]]

\* a publish that fails leaves process_and_predict: the mutant of
\* PublishResult
PublishResultPropagates(sent, topic, pub) ==
    IF Raised(sent.exc) \/ ~topic THEN sent
    ELSE [exc |-> pub.exc,
          result |-> IF Raised(pub.exc) THEN NoneV
                     ELSE WithMessageId(sent.result, pub.message_id),
          calls |-> sent.calls \o pub.calls]

\* process_and_predict past the call of send_to_vertex_ai, its publish
\* given as pub: a publish that fails is logged and dropped
PublishResult(sent, topic, pub) ==
    IF Raised(sent.exc) \/ ~topic THEN sent
    ELSE [exc |-> NoExc,
          result |-> IF Raised(pub.exc) THEN sent.result
                     ELSE WithMessageId(sent.result, pub.message_id),
          calls |-> sent.calls \o pub.calls]

\* process_and_predict: [exc, result, calls]
process_and_predict(data, topic, endpointAnswer, publishAnswer, item) ==
    PublishResult(send_to_vertex_ai(data, endpointAnswer, item), topic,
                  publish_to_pubsub(publishAnswer, item))

---------------------------------------------------------------------------
(* DataPipeline.process_with_vertex_ai and _update_entity_with_prediction. *)

\* except VertexAIError, VertexAIError being vertex_ai_utils.GoogleAPIError
IsVertexAIError(e) == e.kind = "GoogleAPIError"

\* process_with_vertex_ai with no processor: warn and return None
PredictionSkipped(warn) ==
    [exc |-> warn, result |-> NoneV,
     logs |-> IF Raised(warn) THEN << >>
              ELSE LocalSink("WARNING",
                       "Vertex AI processor not initialized - skipping prediction"),
     calls |-> << >>]

\* process_with_vertex_ai past the call of process_and_predict, with the
\* logger calls of its three exits: [exc, result, logs, calls]
PredictionReturn(p, info, err, crit, item) ==
    IF ~Raised(p.exc) /\ ~Raised(info)
    THEN [exc |-> NoExc, result |-> p.result,
          logs |-> LocalSink("INFO", "Successfully processed with Vertex AI"),
          calls |-> << Call(item, "predict", TRUE) >> \o p.calls]
    ELSE IF IsVertexAIError(IF Raised(p.exc) THEN p.exc ELSE info)
    THEN [exc |-> IF Raised(err) THEN err
                  ELSE IF Raised(p.exc) THEN p.exc ELSE info,
          result |-> NoneV,
          logs |-> IF Raised(err) THEN << >>
                   ELSE LocalSink("ERROR", "Vertex AI processing failed"),
          calls |-> << Call(item, "predict", FALSE) >> \o p.calls]
    ELSE [exc |-> IF Raised(crit) THEN crit
                  ELSE Exc("GoogleAPIError",
                           <<"Unexpected error in Vertex AI processing:">>),
          result |-> NoneV,
          logs |-> << >>,
          calls |-> << Call(item, "predict", FALSE) >> \o p.calls]

\* process_with_vertex_ai: [exc, result, logs, calls]
process_with_vertex_ai(data, processor, topic, endpointAnswer, publishAnswer, item) ==
    IF ~processor
    THEN PredictionSkipped(LoggerCall("warning", {"data_keys"}))
    ELSE PredictionReturn(
             process_and_predict(data, topic, endpointAnswer, publishAnswer, item),
             LoggerCall("info", {"model", "endpoint", "prediction_keys"}),
             LoggerCall("error", {"error", "model", "endpoint", "exc_info"}),
             LoggerCall("critical", {"error", "error_type", "model", "exc_info"}),
             item)

\* what the store can do with the get and put of the attach-back
UpdateAnswers == {"ok", "notfound", "fail"}

\* entity['prediction'] = prediction
WithPrediction(entity, prediction) ==
    [k \in DOMAIN entity \cup {"prediction"} |->
        IF k = "prediction" THEN prediction ELSE entity[k]]

\* the try block of _update_entity_with_prediction: the exception it raises
UpdateTry(key, answer, store) ==
    IF answer = "fail" THEN Exc("GoogleAPIError", <<"Datastore get failed">>)
    ELSE IF answer = "ok" /\ key.n \in 1..Len(store)
    THEN LoggerCall("info", {"entity_key"})
    ELSE LoggerCall("warning", {"entity_key"})

\* _update_entity_with_prediction: [exc, store, logs, calls]; its except
\* clause catches whatever the try block raises and logs it
update_entity_with_prediction(key, prediction, answer, store, item) ==
    IF Raised(UpdateTry(key, answer, store))
    THEN [exc |-> LoggerCall("error", {"error", "entity_key"}),
          store |-> store,
          logs |-> LocalSink("ERROR",
                             "Failed to update Datastore entity with prediction"),
          calls |-> << Call(item, "update", FALSE) >>]
    ELSE IF answer = "ok" /\ key.n \in 1..Len(store)
    THEN [exc |-> NoExc,
          store |-> [store EXCEPT ![key.n] = WithPrediction(store[key.n], prediction)],
          logs |-> LocalSink("INFO", "Updated Datastore entity with prediction"),
          calls |-> << Call(item, "update", TRUE) >>]
    ELSE [exc |-> NoExc,
          store |-> store,
          logs |-> LocalSink("WARNING",
                             "Datastore entity not found for prediction update"),
          calls |-> << Call(item, "update", FALSE) >>]

---------------------------------------------------------------------------
(* DataPipeline.__init__ (data_pipeline.py).                               *)

\* the vertex_config arguments: None or a dict without 'enabled', a dict with
\* enabled False, a dict with enabled True and the three keys, a dict with
\* enabled True that lacks 'region'
ConfigVariants == {"none", "disabled", "enabled", "incomplete"}

\* self.vertex_config.get('enabled', False)
VertexEnabled(config) == config \in {"enabled", "incomplete"}

\* what datastore.Client(...) and VertexAIProcessor(...) raise when they fail
ClientError == Exc("DefaultCredentialsError", <<"could not determine credentials">>)

\* the try block that makes the Datastore client and its except clause:
\* [exc, logs]
InitDatastore(client) ==
    LET made == IF client = "ok" THEN NoExc ELSE ClientError
        info == LoggerCall("info", {"project_id", "namespace"})
        crit == LoggerCall("critical", {"error", "exc_info"})
    IN  IF ~Raised(made) /\ ~Raised(info)
        THEN [exc |-> NoExc, logs |-> LocalSink("INFO", "Initialized Datastore client")]
        ELSE [exc |-> IF Raised(crit) THEN crit
                      ELSE IF Raised(made) THEN made ELSE info,
              logs |-> << >>]

\* the part that makes the Vertex AI processor when the config enables it:
\* [exc, vertex_processor, logs]
InitVertex(config, processor) ==
    LET made == IF config = "incomplete" THEN Exc("KeyError", <<"'region'">>)
                ELSE IF processor = "ok" THEN NoExc ELSE ClientError
        info == LoggerCall("info", {"model_id", "endpoint_id"})
        err == LoggerCall("error", {"error", "config", "exc_info"})
    IN  IF ~VertexEnabled(config)
        THEN [exc |-> NoExc, vertex_processor |-> FALSE, logs |-> << >>]
        ELSE IF ~Raised(made) /\ ~Raised(info)
        THEN [exc |-> NoExc, vertex_processor |-> TRUE,
              logs |-> LocalSink("INFO", "Initialized Vertex AI processor")]
        ELSE [exc |-> err, vertex_processor |-> ~Raised(made),
              logs |-> IF Raised(err) THEN << >>
                       ELSE LocalSink("ERROR", "Failed to initialize Vertex AI processor")]

\* __init__ past the Datastore part d, the Vertex AI part given as v
InitReturn(d, v) ==
    IF Raised(d.exc)
    THEN [exc |-> d.exc, vertex_processor |-> FALSE, logs |-> d.logs]
    ELSE [exc |-> v.exc, vertex_processor |-> v.vertex_processor,
          logs |-> d.logs \o v.logs]

\* DataPipeline(project_id, datastore_kind, datastore_namespace, vertex_config):
\* [exc, vertex_processor, logs]
DataPipelineInit(env) ==
    InitReturn(InitDatastore(env.client), InitVertex(env.config, env.processor))

---------------------------------------------------------------------------
(* DataPipeline.process_batch (data_pipeline.py).                          *)

\* an item_result that starts with a key: the mutant of NewItemResult
NewItemResultKeyed(item) ==
    [item |-> item, success |-> FALSE, datastore_key |-> IntV(item),
     vertex_prediction |-> NoneV, error |-> NoneV]

\* the item_result dict a loop iteration starts with; item is a ghost field,
\* the position of the record the outcome is built for
NewItemResult(item) ==
    [item |-> item, success |-> FALSE, datastore_key |-> NoneV,
     vertex_prediction |-> NoneV, error |-> NoneV]

\* if i % 10 == 0 or i == len(raw_data_list)
ProgressDue(item, total) == item % 10 = 0 \/ item = total

\* if prediction and 'prediction' in prediction
HasPrediction(prediction) ==
    prediction # NoneV /\ Has(prediction, "prediction")

\* the inner try block of step 3 past the attach-back u of a returned
\* prediction: [exc, result, store, logs, calls, stage]
InnerTryUpdate(p, u) ==
    [exc |-> u.exc, result |-> p.result, store |-> u.store,
     logs |-> p.logs \o u.logs, calls |-> p.calls \o u.calls,
     stage |-> "predicted"]

\* the inner try block of step 3 past the call p of process_with_vertex_ai
InnerTry(p, key, store, updateAnswer, item) ==
    IF Raised(p.exc)
    THEN [exc |-> p.exc, result |-> NoneV, store |-> store, logs |-> p.logs,
          calls |-> p.calls, stage |-> "prediction-failed"]
    ELSE IF ~HasPrediction(p.result)
    THEN [exc |-> NoExc, result |-> p.result, store |-> store, logs |-> p.logs,
          calls |-> p.calls, stage |-> "prediction-skipped"]
    ELSE InnerTryUpdate(p, update_entity_with_prediction(key, p.result,
                                                         updateAnswer, store, item))

\* the except VertexAIError clause of step 3: the item goes on without a
\* prediction; any other exception leaves the outer try block
InnerExcept(t, warn) ==
    IF Raised(t.exc) /\ IsVertexAIError(t.exc)
    THEN [t EXCEPT !.exc = warn,
                   !.logs = t.logs \o
                       (IF Raised(warn) THEN << >>
                        ELSE LocalSink("WARNING",
                                 "Skipping Vertex AI processing due to error"))]
    ELSE IF Raised(t.exc) THEN [t EXCEPT !.stage = "failed"]
    ELSE t

\* step 3: [exc, result, store, logs, calls, stage]
PredictStep(vertex_data, key, store, processor, topic, endpointAnswer, publishAnswer, updateAnswer, item) ==
    IF ~processor
    THEN [exc |-> NoExc, result |-> NoneV, store |-> store, logs |-> << >>,
          calls |-> << >>, stage |-> "prediction-skipped"]
    ELSE InnerExcept(
             InnerTry(process_with_vertex_ai(vertex_data, processor, topic,
                                             endpointAnswer, publishAnswer, item),
                      key, store, updateAnswer, item),
             LoggerCall("warning", {"error", "datastore_key"}))

\* the try block past step 3: the success mark, the counter and the progress
\* line: [exc, item_result, success_count, store, logs, calls, stages]
MarkSuccess(res, p, count, dbg) ==
    [exc |-> IF Raised(p.exc) THEN p.exc ELSE dbg,
     item_result |-> [res EXCEPT !.vertex_prediction = p.result,
                                 !.success = ~Raised(p.exc)],
     success_count |-> IF Raised(p.exc) THEN count ELSE count + 1,
     store |-> p.store,
     logs |-> p.logs,
     calls |-> p.calls,
     stages |-> IF p.stage = "failed" THEN << >> ELSE << p.stage >>]

\* the try block past step 2
AfterIngest(t, w, res, item, total, count, processor, topic, endpointAnswer, publishAnswer, updateAnswer) ==
    IF Raised(w.exc)
    THEN [exc |-> w.exc, item_result |-> res, success_count |-> count,
          store |-> w.store, logs |-> w.logs, calls |-> w.calls,
          stages |-> << >>]
    ELSE LET m == MarkSuccess(
                      [res EXCEPT !.datastore_key = w.key],
                      PredictStep(t.vertex_data, w.key, w.store, processor, topic,
                                  endpointAnswer, publishAnswer, updateAnswer, item),
                      count,
                      IF ProgressDue(item, total)
                      THEN LoggerCall("debug", {"processed", "total", "success_rate"})
                      ELSE NoExc)
         IN  [m EXCEPT !.logs = w.logs \o m.logs,
                       !.calls = w.calls \o m.calls,
                       !.stages = <<"stored">> \o m.stages]

\* step 2 is run whether or not transform_data raised: the mutant of
\* AfterTransform
AfterTransformUnguarded(t, res, item, total, count, store, processor, topic, storeAnswer, endpointAnswer, publishAnswer, updateAnswer) ==
    LET a == AfterIngest(t,
                 ingest_to_datastore(t.datastore_data, storeAnswer, store, item),
                 res, item, total, count, processor, topic, endpointAnswer,
                 publishAnswer, updateAnswer)
    IN  [a EXCEPT !.logs = t.logs \o a.logs,
                  !.calls = << Call(item, "transform", ~Raised(t.exc)) >> \o a.calls,
                  !.stages = <<"pending", "transformed">> \o a.stages]

\* transform_data is called a second time after it raised: a mutant of
\* AfterTransform
AfterTransformRetried(t, res, item, total, count, store, processor, topic, storeAnswer, endpointAnswer, publishAnswer, updateAnswer) ==
    IF Raised(t.exc)
    THEN [exc |-> t.exc, item_result |-> res, success_count |-> count,
          store |-> store, logs |-> t.logs \o t.logs,
          calls |-> << Call(item, "transform", FALSE),
                       Call(item, "transform", FALSE) >>,
          stages |-> <<"pending">>]
    ELSE AfterTransformUnguarded(t, res, item, total, count, store, processor,
                                 topic, storeAnswer, endpointAnswer,
                                 publishAnswer, updateAnswer)

\* the try block past step 1
AfterTransform(t, res, item, total, count, store, processor, topic, storeAnswer, endpointAnswer, publishAnswer, updateAnswer) ==
    IF Raised(t.exc)
    THEN [exc |-> t.exc, item_result |-> res, success_count |-> count,
          store |-> store, logs |-> t.logs,
          calls |-> << Call(item, "transform", FALSE) >>,
          stages |-> <<"pending">>]
    ELSE LET a == AfterIngest(t,
                      ingest_to_datastore(t.datastore_data, storeAnswer, store, item),
                      res, item, total, count, processor, topic, endpointAnswer,
                      publishAnswer, updateAnswer)
         IN  [a EXCEPT !.logs = t.logs \o a.logs,
                       !.calls = << Call(item, "transform", TRUE) >> \o a.calls,
                       !.stages = <<"pending", "transformed">> \o a.stages]

\* The try block of one loop iteration, up to the exception it raises:
\* [exc, item_result, success_count, store, logs, calls, stages]
TryBlock(raw_data, item, total, count, store, processor, topic, storeAnswer, endpointAnswer, publishAnswer, updateAnswer) ==
    AfterTransform(transform_data(raw_data), NewItemResult(item), item, total,
                   count, store, processor, topic, storeAnswer, endpointAnswer,
                   publishAnswer, updateAnswer)

\* except ValueError: the mutant of BatchCatches
BatchCatchesValueError(e) == e.kind = "ValueError"

\* except Exception
BatchCatches(e) ==
    e.kind \in {"ValueError", "TypeError", "KeyError", "AttributeError",
                "GoogleAPIError", "HTTPError"}

\* the records process_batch is run on in this model
TimedRecord ==
    [timestamp |-> StrV(<<"t", "1">>), source_ip |-> StrV(<<"1", ".", "1">>),
     destination_ip |-> StrV(<<"2", ".", "2">>), protocol |-> StrV(<<"t", "c", "p">>),
     payload_size |-> IntV(7)]

UntimedRecord ==
    [source_ip |-> StrV(<<"1", ".", "1">>), destination_ip |-> StrV(<<"2", ".", "2">>),
     protocol |-> StrV(<<"U", "D", "P">>), payload_size |-> StrV(<<"1", "2">>)]

TwoMissingRecord ==
    [timestamp |-> StrV(<<"t", "1">>), destination_ip |-> StrV(<<"2", ".", "2">>),
     protocol |-> StrV(<<"t", "c", "p">>)]

BadPayloadRecord ==
    [timestamp |-> StrV(<<"t", "1">>), source_ip |-> StrV(<<"1", ".", "1">>),
     destination_ip |-> StrV(<<"2", ".", "2">>), protocol |-> StrV(<<"t", "c", "p">>),
     payload_size |-> StrV(<<"a", "b">>)]

BatchRecords ==
    {TimedRecord, UntimedRecord, TwoMissingRecord, BadPayloadRecord}

NoReturn == [exc |-> NoExc, datastore_data |-> EmptyDict,
             vertex_data |-> EmptyDict, logs |-> << >>]

\* no stage has been called directly
NoEnv == [topic |-> FALSE, endpoint |-> "ok", publish |-> "ok", store |-> "ok"]

NoPrediction == [exc |-> NoExc, result |-> NoneV, calls |-> << >>]

NoIngest == [exc |-> NoExc, key |-> NoneV]

NoStage ==
    /\ p_data = EmptyDict
    /\ p_env = NoEnv
    /\ p_ret = NoPrediction
    /\ s_ret = NoIngest

\* no DataPipeline is being constructed
NoConstruct ==
    /\ c_env = [client |-> "ok", config |-> "none", processor |-> "ok"]
    /\ c_ret = [exc |-> NoExc, vertex_processor |-> FALSE, logs |-> << >>]

\* log_parser is not run
NoParser ==
    /\ l_path = << >>
    /\ l_file = [readable |-> FALSE, content |-> << >>]
    /\ l_ret = NoneV
    /\ l_label = 0

\* ingest_data is not run
NoIngestRun ==
    /\ g_file = [format |-> "json", data |-> << >>]
    /\ g_env = [status |-> "active", client |-> "ok", vertex |-> FALSE,
                processor |-> "ok", topic |-> FALSE, endpoint |-> "ok",
                put |-> "ok"]
    /\ g_processor = FALSE
    /\ g_i = 0
    /\ g_entities = << >>
    /\ g_written = << >>

\* a DataPipeline instance, with or without a prediction processor and a
\* topic, about to run process_batch on a list of at most MaxBatch records
Init ==
    /\ \E n \in 0..MaxBatch :
          /\ raw_data_list \in [1..n -> BatchRecords]
          /\ storeScript \in [1..n -> {"ok", "fail"}]
          /\ \E up \in {"ok", "transport"} : endpointScript = [k \in 1..n |-> up]
    /\ vertex_processor \in BOOLEAN
    /\ pubsub_topic \in BOOLEAN
    /\ pc = "start"
    /\ i = 0
    /\ item_result = NewItemResult(0)
    /\ exc = NoExc
    /\ batch_results = << >>
    /\ success_count = 0
    /\ error_count = 0
    /\ calls = << >>
    /\ trace = << >>
    /\ datastore = << >>
    /\ logged = << >>
    /\ t_raw = EmptyDict
    /\ t_ret = NoReturn
    /\ NoStage
    /\ NoConstruct
    /\ NoParser
    /\ NoIngestRun

\* the next value of the loop index
NextIndex(item) == item + 1

\* the loop never exits: the mutant of LoopDone
LoopDoneNever(item, total) == FALSE

\* for i, raw_data in enumerate(raw_data_list, 1): the list is exhausted
LoopDone(item, total) == item > total

\* the list is always taken to have records: the mutant of IsEmptyBatch
IsEmptyBatchNever(list) == FALSE

\* if not raw_data_list
IsEmptyBatch(list) == list = << >>

\* if not raw_data_list: warn and return []
BatchEmpty ==
    /\ pc = "start"
    /\ IsEmptyBatch(raw_data_list)
    /\ LET warn == LoggerCall("warning", {})
       IN  /\ exc' = warn
           /\ pc' = IF Raised(warn) THEN "raised" ELSE "returned"
           /\ logged' = logged \o
                  (IF Raised(warn) THEN << >>
                   ELSE LocalSink("WARNING", "Received empty batch, nothing to process"))
    /\ UNCHANGED << ctorVars, parserVars, ingestVars, stageVars, raw_data_list, storeScript, endpointScript, vertex_processor,
                    pubsub_topic, i, item_result, batch_results, success_count,
                    error_count, calls, trace, datastore, t_raw, t_ret >>

\* batch_results = [], the counters, the "Starting batch processing" line
BatchStart ==
    /\ pc = "start"
    /\ ~IsEmptyBatch(raw_data_list)
    /\ LET info == LoggerCall("info", {"batch_size", "vertex_ai_enabled"})
       IN  /\ exc' = info
           /\ pc' = IF Raised(info) THEN "raised"
                    ELSE IF LoopDone(1, Len(raw_data_list)) THEN "complete"
                    ELSE "item"
           /\ logged' = logged \o
                  (IF Raised(info) THEN << >>
                   ELSE LocalSink("INFO", "Starting batch processing"))
    /\ batch_results' = << >>
    /\ success_count' = 0
    /\ error_count' = 0
    /\ i' = 1
    /\ UNCHANGED << ctorVars, parserVars, ingestVars, stageVars, raw_data_list, storeScript, endpointScript, vertex_processor,
                    pubsub_topic, item_result, calls, trace, datastore, t_raw,
                    t_ret >>

\* one loop iteration up to the end of its try block
ItemTry ==
    /\ pc = "item"
    /\ i <= Len(raw_data_list)
    /\ \E publishAnswer \in {"ok", "fail"}, updateAnswer \in UpdateAnswers :
          LET r == TryBlock(raw_data_list[i], i, Len(raw_data_list), success_count,
                            datastore, vertex_processor, pubsub_topic,
                            storeScript[i], endpointScript[i], publishAnswer,
                            updateAnswer)
          IN  /\ item_result' = r.item_result
              /\ success_count' = r.success_count
              /\ datastore' = r.store
              /\ logged' = logged \o r.logs
              /\ calls' = calls \o r.calls
              /\ trace' = Append(trace, r.stages)
              /\ exc' = r.exc
              /\ pc' = IF ~Raised(r.exc) THEN "append"
                       ELSE IF BatchCatches(r.exc) THEN "except"
                       ELSE "raised"
    /\ UNCHANGED << ctorVars, parserVars, ingestVars, stageVars, raw_data_list, storeScript, endpointScript, vertex_processor,
                    pubsub_topic, i, batch_results, error_count, t_raw, t_ret >>

\* the except clause without item_result['error'] = str(e): a mutant of
\* ExceptEffect
ExceptEffectNoError(res, e, errors) ==
    [item_result |-> res, error_count |-> errors + 1]

\* the except clause without error_count += 1: the mutant of ExceptEffect
ExceptEffectNoCount(res, e, errors) ==
    [item_result |-> [res EXCEPT !.error = StrV(e.msg)], error_count |-> errors]

\* what the except clause does to the counters and the outcome
ExceptEffect(res, e, errors) ==
    [item_result |-> [res EXCEPT !.error = StrV(e.msg)], error_count |-> errors + 1]

\* the except Exception clause of the loop body
ItemExcept ==
    /\ pc = "except"
    /\ LET x == ExceptEffect(item_result, exc, error_count)
           err == LoggerCall("error",
                             {"error", "error_type", "item_index", "success_count",
                              "error_count", "exc_info"})
       IN  /\ item_result' = x.item_result
           /\ error_count' = x.error_count
           /\ exc' = err
           /\ pc' = IF Raised(err) THEN "raised" ELSE "append"
           /\ logged' = logged \o
                  (IF Raised(err) THEN << >>
                   ELSE LocalSink("ERROR", "Error processing data item"))
    /\ UNCHANGED << ctorVars, parserVars, ingestVars, stageVars, raw_data_list, storeScript, endpointScript, vertex_processor,
                    pubsub_topic, i, batch_results, success_count, calls, trace,
                    datastore, t_raw, t_ret >>

\* the outcome is not appended before the next record is taken: a mutant of
\* AppendResult
AppendResultDropped(results, res) == results

\* one item_result dict shared by every iteration, so that the append
\* rewrites the outcomes before it: a mutant of AppendResult
AppendResultShared(results, res) == [k \in 1..(Len(results) + 1) |-> res]

\* batch_results.insert(0, item_result): the mutant of AppendResult
AppendResultFront(results, res) == << res >> \o results

\* batch_results.append(item_result)
AppendResult(results, res) == Append(results, res)

\* the end of a loop iteration: the append, then the next record or the end
ItemAppend ==
    /\ pc = "append"
    /\ batch_results' = AppendResult(batch_results, item_result)
    /\ trace' = [trace EXCEPT ![Len(trace)] = Append(@, "done")]
    /\ i' = NextIndex(i)
    /\ pc' = IF LoopDone(NextIndex(i), Len(raw_data_list)) THEN "complete"
             ELSE "item"
    /\ UNCHANGED << ctorVars, parserVars, ingestVars, stageVars, raw_data_list, storeScript, endpointScript, vertex_processor,
                    pubsub_topic, item_result, exc, success_count, error_count,
                    calls, datastore, logged, t_raw, t_ret >>

\* the "Batch processing completed" line and the return
BatchComplete ==
    /\ pc = "complete"
    /\ LET info == LoggerCall("info",
                              {"batch_size", "successful", "failed", "success_rate"})
       IN  /\ exc' = info
           /\ pc' = IF Raised(info) THEN "raised" ELSE "returned"
           /\ logged' = logged \o
                  (IF Raised(info) THEN << >>
                   ELSE LocalSink("INFO", "Batch processing completed"))
    /\ UNCHANGED << ctorVars, parserVars, ingestVars, stageVars, raw_data_list, storeScript, endpointScript, vertex_processor,
                    pubsub_topic, i, item_result, batch_results, success_count,
                    error_count, calls, trace, datastore, t_raw, t_ret >>

Next ==
    \/ BatchEmpty
    \/ BatchStart
    \/ ItemTry
    \/ ItemExcept
    \/ ItemAppend
    \/ BatchComplete

Spec == Init /\ [][Next]_vars

\* process_batch is one synchronous call: a step that can be taken is taken
FairSpec == Spec /\ WF_vars(Next)

---------------------------------------------------------------------------
(* transform_data called on its own, on every raw record of RawRecords.    *)

Absent == [tag |-> "absent", n |-> 0, s |-> << >>]

\* the dict with the keys of KeyOrder whose value is given
Record(ts, src, dst, proto, size, score) ==
    LET given == [timestamp |-> ts, source_ip |-> src, destination_ip |-> dst,
                  protocol |-> proto, payload_size |-> size, threat_score |-> score]
    IN  [k \in {f \in DOMAIN given : given[f] # Absent} |-> given[k]]

RawRecords ==
    { Record(ts, src, dst, proto, size, score) :
        ts \in {Absent, StrV(<< >>), StrV(<<"t", "1">>)},
        src \in {Absent, StrV(<<"1", ".", "1">>)},
        dst \in {Absent, StrV(<<"2", ".", "2">>)},
        proto \in {Absent, StrV(<<"t", "c", "p">>), StrV(<<"U", "D", "P">>)},
        size \in {Absent, NoneV, IntV(7), StrV(<<"1", "2">>), StrV(<<"a", "b">>)},
        score \in {Absent, IntV(3), StrV(<<"x">>)} }

InitTransform ==
    /\ t_raw \in RawRecords
    /\ t_ret = NoReturn
    /\ pc = "t_call"
    /\ raw_data_list = << >>
    /\ storeScript = << >>
    /\ endpointScript = << >>
    /\ vertex_processor = FALSE
    /\ pubsub_topic = FALSE
    /\ i = 0
    /\ item_result = NewItemResult(0)
    /\ exc = NoExc
    /\ batch_results = << >>
    /\ success_count = 0
    /\ error_count = 0
    /\ calls = << >>
    /\ trace = << >>
    /\ datastore = << >>
    /\ logged = << >>
    /\ NoStage
    /\ NoConstruct
    /\ NoParser
    /\ NoIngestRun

\* pipeline.transform_data(t_raw)
TransformCall ==
    /\ pc = "t_call"
    /\ t_ret' = transform_data(t_raw)
    /\ logged' = logged \o transform_data(t_raw).logs
    /\ pc' = "t_done"
    /\ UNCHANGED << ctorVars, parserVars, ingestVars, stageVars, raw_data_list, storeScript, endpointScript, vertex_processor,
                    pubsub_topic, i, item_result, exc, batch_results,
                    success_count, error_count, calls, trace, datastore, t_raw >>

NextTransform == TransformCall

SpecTransform == InitTransform /\ [][NextTransform]_vars

---------------------------------------------------------------------------
(* The stages called on their own: VertexAIProcessor.process_and_predict   *)
(* on every record of PredictionRecords, DataPipeline.ingest_to_datastore  *)
(* on a transformed record, and the construction of a DataPipeline.        *)

\* what transform_data builds as vertex_data for a raw record it accepts
TransformedRecord(raw) ==
    VertexData(raw,
               IF Has(raw, "timestamp") /\ Truthy(raw["timestamp"])
               THEN raw["timestamp"] ELSE NowV,
               PyInt(raw["payload_size"]).val,
               Has(raw, "threat_score"),
               IF Has(raw, "threat_score") THEN PyFloat(raw["threat_score"]).val
               ELSE 0)

TransformedRecords == {TransformedRecord(TimedRecord), TransformedRecord(UntimedRecord)}

\* records with the fields preprocess_data asks for
FeatureRecord(f1, f2) ==
    [feat1 |-> f1, feat2 |-> f2, feat3 |-> IntV(3), feat4 |-> IntV(4)]

FeatureRecords ==
    { FeatureRecord(IntV(1), IntV(2)),
      FeatureRecord(StrV(<<"1", "2">>), IntV(2)),
      FeatureRecord(StrV(<<"x">>), IntV(2)),
      FeatureRecord(IntV(1), NoneV),
      [feat1 |-> IntV(1), feat2 |-> IntV(2)] }

PredictionRecords == TransformedRecords \cup FeatureRecords

\* what transform_data builds as datastore_data for TimedRecord
StoredRecord == DatastoreData(TimedRecord, TimedRecord["timestamp"], 7)

InitStages ==
    /\ p_data \in PredictionRecords
    /\ p_env \in [topic : BOOLEAN, endpoint : EndpointAnswers,
                  publish : {"ok", "fail"}, store : {"ok", "fail"}]
    /\ p_ret = NoPrediction
    /\ s_ret = NoIngest
    /\ pc = "s_call"
    /\ raw_data_list = << >>
    /\ storeScript = << >>
    /\ endpointScript = << >>
    /\ vertex_processor = TRUE
    /\ pubsub_topic = FALSE
    /\ i = 0
    /\ item_result = NewItemResult(0)
    /\ exc = NoExc
    /\ batch_results = << >>
    /\ success_count = 0
    /\ error_count = 0
    /\ calls = << >>
    /\ trace = << >>
    /\ datastore = << >>
    /\ logged = << >>
    /\ t_raw = EmptyDict
    /\ t_ret = NoReturn
    /\ c_env \in [client : {"ok", "fail"}, config : ConfigVariants,
                  processor : {"ok", "fail"}]
    /\ c_ret = [exc |-> NoExc, vertex_processor |-> FALSE, logs |-> << >>]
    /\ NoParser
    /\ NoIngestRun

\* processor.process_and_predict(p_data, pubsub_topic)
PredictCall ==
    /\ pc = "s_call"
    /\ LET r == process_and_predict(p_data, p_env.topic, p_env.endpoint,
                                    p_env.publish, 1)
       IN  /\ p_ret' = r
           /\ calls' = calls \o r.calls
    /\ pc' = "p_done"
    /\ UNCHANGED << ctorVars, parserVars, ingestVars, raw_data_list, storeScript, endpointScript, vertex_processor,
                    pubsub_topic, i, item_result, exc, batch_results,
                    success_count, error_count, trace, datastore, logged, t_raw,
                    t_ret, p_data, p_env, s_ret >>

\* pipeline.ingest_to_datastore(StoredRecord)
IngestCall ==
    /\ pc = "s_call"
    /\ LET r == ingest_to_datastore(StoredRecord, p_env.store, datastore, 1)
       IN  /\ s_ret' = [exc |-> r.exc, key |-> r.key]
           /\ datastore' = r.store
           /\ logged' = logged \o r.logs
           /\ calls' = calls \o r.calls
    /\ pc' = "s_done"
    /\ UNCHANGED << ctorVars, parserVars, ingestVars, raw_data_list, storeScript, endpointScript, vertex_processor,
                    pubsub_topic, i, item_result, exc, batch_results,
                    success_count, error_count, trace, t_raw, t_ret, p_data,
                    p_env, p_ret >>

\* DataPipeline(...) with the vertex_config and the services of c_env
ConstructCall ==
    /\ pc = "s_call"
    /\ c_ret' = DataPipelineInit(c_env)
    /\ logged' = logged \o DataPipelineInit(c_env).logs
    /\ pc' = "c_done"
    /\ UNCHANGED << parserVars, ingestVars, stageVars, raw_data_list, storeScript,
                    endpointScript, vertex_processor, pubsub_topic, i,
                    item_result, exc, batch_results, success_count, error_count,
                    calls, trace, datastore, t_raw, t_ret, c_env >>

NextStages == PredictCall \/ IngestCall \/ ConstructCall

SpecStages == InitStages /\ [][NextStages]_vars

---------------------------------------------------------------------------
(* log_parser.py.  A path is the sequence of its words, "/" between the    *)
(* directories; a file content is the sequence of its lines, a line being  *)
(* what the regular expressions of the parsers find in it.                 *)

\* the words that are not their own lower case
MixedCaseWords == <<"Malware", "HONEYPOTS", "Sysmon", "Attack_Techniques">>

LoweredWords == <<"malware", "honeypots", "sysmon", "attack_techniques">>

\* the path is used as it is given: the mutant of PathLower
PathLowerIdentity(path) == path

\* log_path.lower()
PathLower(path) ==
    [k \in 1..Len(path) |->
        IF \E m \in 1..Len(MixedCaseWords) : MixedCaseWords[m] = path[k]
        THEN LoweredWords[CHOOSE m \in 1..Len(MixedCaseWords) :
                              MixedCaseWords[m] = path[k]]
        ELSE path[k]]

\* word in text
Contains(text, word) == \E k \in 1..Len(text) : text[k] = word

\* get_target_label(log_path)
get_target_label(log_path) ==
    IF \/ Contains(PathLower(log_path), "attack_techniques")
       \/ Contains(PathLower(log_path), "malware")
    THEN 1
    ELSE IF Contains(PathLower(log_path), "honeypots") THEN 0
    ELSE IF Contains(PathLower(log_path), "suspicious_behaviour") THEN 1
    ELSE 0

\* os.path.basename(log_path): the words after the last "/"
RECURSIVE Basename(_)
Basename(path) ==
    IF ~Contains(path, "/") THEN path ELSE Basename(Tail(path))

Line(kind, n) == [kind |-> kind, n |-> n]

\* the lines of content of one of the kinds
LinesOf(content, kinds) == SelectSeq(content, LAMBDA l : l.kind \in kinds)

RECURSIVE MaxOf(_)
MaxOf(lines) ==
    IF Len(lines) = 1 THEN lines[1].n
    ELSE IF lines[1].n >= MaxOf(Tail(lines)) THEN lines[1].n
    ELSE MaxOf(Tail(lines))

\* features.update(d)
Updated(features, d) ==
    [k \in DOMAIN features \cup DOMAIN d |->
        IF k \in DOMAIN d THEN d[k] ELSE features[k]]

\* a dict with the key k set to v when cond holds, empty otherwise
SetIf(cond, k, v) == IF cond THEN [f \in {k} |-> v] ELSE [f \in {} |-> 0]

\* parse_fgdump(content)
parse_fgdump(content) ==
    Updated(SetIf(LinesOf(content, {"fgdump"}) # << >>, "feat1", 1),
            SetIf(LinesOf(content, {"token"}) # << >>, "feat2",
                  IF LinesOf(content, {"token"}) # << >>
                  THEN LinesOf(content, {"token"})[1].n ELSE 0))

\* parse_sysmon(content)
parse_sysmon(content) ==
    Updated(SetIf(LinesOf(content, {"eventid"}) # << >>, "feat3",
                  IF LinesOf(content, {"eventid"}) # << >>
                  THEN LinesOf(content, {"eventid"})[1].n ELSE 0),
            SetIf(LinesOf(content, {"mimikatz", "powershell"}) # << >>, "feat1", 1))

\* parse_powershell(content)
parse_powershell(content) ==
    SetIf(LinesOf(content, {"script"}) # << >>, "feat4",
          IF LinesOf(content, {"script"}) # << >>
          THEN MaxOf(LinesOf(content, {"script"})) ELSE 0)

\* the parser the file name selects, applied to content
Dispatch(filename, content) ==
    IF Contains(filename, "fgdump") THEN parse_fgdump(content)
    ELSE IF Contains(filename, "sysmon") THEN parse_sysmon(content)
    ELSE IF Contains(filename, "powershell") THEN parse_powershell(content)
    ELSE [f \in {} |-> 0]

\* features['target'] = get_target_label(log_path)
WithTarget(features, target) ==
    [k \in DOMAIN features \cup {"target"} |->
        IF k = "target" THEN target ELSE features[k]]

\* parse_log_file(log_path): None when the file cannot be read
parse_log_file(log_path, file) ==
    IF ~file.readable THEN NoneV
    ELSE WithTarget(
             Updated([feat1 |-> 0, feat2 |-> 0, feat3 |-> 0, feat4 |-> 0],
                     Dispatch(PathLower(Basename(log_path)), file.content)),
             get_target_label(log_path))

Directories ==
    {"attack_techniques", "Attack_Techniques", "Malware", "honeypots",
     "HONEYPOTS", "suspicious_behaviour", "logs"}

FileNames ==
    { <<"sample_", "fgdump", ".log">>, <<"Sysmon", ".log">>,
      <<"powershell", ".log">>, <<"sample_", ".log">>,
      <<"powershell", "_", "sysmon", ".log">> }

LogPaths ==
    { <<"/", d1, "/", d2, "/">> \o f : d1 \in Directories, d2 \in Directories,
                                      f \in FileNames }

LogContents ==
    { << >>,
      << Line("fgdump", 0), Line("token", 99), Line("token", 7) >>,
      << Line("eventid", 5), Line("mimikatz", 0), Line("eventid", 3) >>,
      << Line("script", 5), Line("script", 10), Line("powershell", 0) >> }

InitParser ==
    /\ l_path \in LogPaths
    /\ l_file \in [readable : BOOLEAN, content : LogContents]
    /\ l_ret = NoneV
    /\ l_label = 0
    /\ pc = "l_call"
    /\ raw_data_list = << >>
    /\ storeScript = << >>
    /\ endpointScript = << >>
    /\ vertex_processor = FALSE
    /\ pubsub_topic = FALSE
    /\ i = 0
    /\ item_result = NewItemResult(0)
    /\ exc = NoExc
    /\ batch_results = << >>
    /\ success_count = 0
    /\ error_count = 0
    /\ calls = << >>
    /\ trace = << >>
    /\ datastore = << >>
    /\ logged = << >>
    /\ t_raw = EmptyDict
    /\ t_ret = NoReturn
    /\ NoStage
    /\ NoConstruct
    /\ NoIngestRun

\* get_target_label(l_path)
LabelCall ==
    /\ pc = "l_call"
    /\ l_label' = get_target_label(l_path)
    /\ pc' = "l_labelled"
    /\ UNCHANGED << ctorVars, ingestVars, stageVars, raw_data_list, storeScript,
                    endpointScript, vertex_processor, pubsub_topic, i,
                    item_result, exc, batch_results, success_count, error_count,
                    calls, trace, datastore, logged, t_raw, t_ret, l_path,
                    l_file, l_ret >>

\* parse_log_file(l_path)
ParseCall ==
    /\ pc = "l_call"
    /\ l_ret' = parse_log_file(l_path, l_file)
    /\ pc' = "l_parsed"
    /\ UNCHANGED << ctorVars, ingestVars, stageVars, raw_data_list, storeScript,
                    endpointScript, vertex_processor, pubsub_topic, i,
                    item_result, exc, batch_results, success_count, error_count,
                    calls, trace, datastore, logged, t_raw, t_ret, l_path,
                    l_file, l_label >>

NextParser == LabelCall \/ ParseCall

SpecParser == InitParser /\ [][NextParser]_vars

---------------------------------------------------------------------------
(* ingest_data (data_ingestion.py) and get_datastore_instance_status       *)
(* (datastore_utils.py).                                                   *)

\* get_datastore_instance_status(project_id): the message it returns when
\* gcloud lists an instance, lists none, or fails
get_datastore_instance_status(status) ==
    CASE status = "active" -> StrV(<<"Datastore instance is active in project">>)
      [] status = "none" -> StrV(<<"No Datastore instance is active in project">>)
      [] OTHER -> StrV(<<"Error: An unexpected error occurred:">>)

\* if input_file.endswith(".json") ... elif input_file.endswith(".csv")
SupportedFormat(format) == format \in {"json", "csv"}

\* the exception of an item is not caught in the loop: the mutant of
\* ItemCatches
ItemCatchesNothing(e) == FALSE

\* except Exception, around the prediction and the publish of an item
ItemCatches(e) == Raised(e)

\* the prediction and the publish of one item, the publish given as pub:
\* [exc, calls]
ItemPredict(sent, topic, pub) ==
    IF Raised(sent.exc) THEN [exc |-> sent.exc, calls |-> sent.calls]
    ELSE IF ~topic THEN [exc |-> NoExc, calls |-> sent.calls]
    ELSE [exc |-> pub.exc, calls |-> sent.calls \o pub.calls]

\* the items an input file holds
IngestItems ==
    { FeatureRecord(IntV(1), IntV(2)), FeatureRecord(StrV(<<"x">>), IntV(2)),
      TransformedRecord(TimedRecord) }

InitIngest ==
    /\ \E n \in 0..MaxItems :
          g_file \in [format : {"json", "csv", "txt"}, data : [1..n -> IngestItems]]
    /\ g_env \in [status : {"active", "none", "error"}, client : {"ok", "fail"},
                  vertex : BOOLEAN, processor : {"ok", "fail"}, topic : BOOLEAN,
                  endpoint : {"ok", "transport"}, put : {"ok", "fail"}]
    /\ (~g_env.vertex) => (g_env.processor = "ok" /\ ~g_env.topic
                             /\ g_env.endpoint = "ok")
    /\ g_processor = FALSE
    /\ g_i = 0
    /\ g_entities = << >>
    /\ g_written = << >>
    /\ pc = "g_start"
    /\ raw_data_list = << >>
    /\ storeScript = << >>
    /\ endpointScript = << >>
    /\ vertex_processor = FALSE
    /\ pubsub_topic = FALSE
    /\ i = 0
    /\ item_result = NewItemResult(0)
    /\ exc = NoExc
    /\ batch_results = << >>
    /\ success_count = 0
    /\ error_count = 0
    /\ calls = << >>
    /\ trace = << >>
    /\ datastore = << >>
    /\ logged = << >>
    /\ t_raw = EmptyDict
    /\ t_ret = NoReturn
    /\ NoStage
    /\ NoConstruct
    /\ NoParser

\* ingest_data up to its loop: the status check, the client, the input file
\* and the Vertex AI processor.  logging.basicConfig, outside the try block,
\* does nothing: the import of vertex_ai_utils has configured the root logger.
IngestStart ==
    /\ pc = "g_start"
    /\ IF ~Truthy(get_datastore_instance_status(g_env.status))
       THEN /\ logged' = Append(logged,
                             Entry("ERROR", "Datastore instance is not active. Exiting."))
            /\ pc' = "g_done"
            /\ UNCHANGED << g_processor, g_i >>
       ELSE IF g_env.client = "fail"
       THEN /\ logged' = Append(logged,
                             Entry("ERROR", "An error occurred during data ingestion"))
            /\ pc' = "g_done"
            /\ UNCHANGED << g_processor, g_i >>
       ELSE IF ~SupportedFormat(g_file.format)
       THEN /\ logged' = Append(logged,
                             Entry("ERROR", "Unsupported file format. Please use JSON or CSV."))
            /\ pc' = "g_done"
            /\ UNCHANGED << g_processor, g_i >>
       ELSE /\ g_processor' = (g_env.vertex /\ g_env.processor = "ok")
            /\ logged' = logged \o
                   (IF g_env.vertex /\ g_env.processor = "fail"
                    THEN << Entry("ERROR", "Failed to initialize Vertex AI processor") >>
                    ELSE << >>)
            /\ g_i' = 1
            /\ pc' = IF LoopDone(1, Len(g_file.data)) THEN "g_write" ELSE "g_item"
    /\ g_entities' = << >>
    /\ UNCHANGED << ctorVars, parserVars, stageVars, raw_data_list, storeScript,
                    endpointScript, vertex_processor, pubsub_topic, i,
                    item_result, exc, batch_results, success_count, error_count,
                    calls, trace, datastore, t_raw, t_ret, g_file, g_env,
                    g_written >>

\* one iteration of the loop: the entity of the item, then its prediction
\* and its publish when there is a processor
IngestItem ==
    /\ pc = "g_item"
    /\ g_i <= Len(g_file.data)
    /\ g_entities' = Append(g_entities, g_file.data[g_i])
    /\ \E publishAnswer \in {"ok", "fail"} :
          LET r == IF g_processor
                   THEN ItemPredict(
                            send_to_vertex_ai(g_file.data[g_i], g_env.endpoint, g_i),
                            g_env.topic, publish_to_pubsub(publishAnswer, g_i))
                   ELSE [exc |-> NoExc, calls |-> << >>]
          IN  /\ calls' = calls \o r.calls
              /\ exc' = r.exc
              /\ logged' = logged \o
                     (IF ~Raised(r.exc) THEN << >>
                      ELSE IF ItemCatches(r.exc)
                      THEN << Entry("ERROR", "Error processing with Vertex AI") >>
                      ELSE << Entry("ERROR", "An error occurred during data ingestion") >>)
              /\ pc' = IF Raised(r.exc) /\ ~ItemCatches(r.exc) THEN "g_done"
                       ELSE IF LoopDone(NextIndex(g_i), Len(g_file.data))
                       THEN "g_write"
                       ELSE "g_item"
    /\ g_i' = NextIndex(g_i)
    /\ UNCHANGED << ctorVars, parserVars, stageVars, raw_data_list, storeScript,
                    endpointScript, vertex_processor, pubsub_topic, i,
                    item_result, batch_results, success_count, error_count,
                    trace, datastore, t_raw, t_ret, g_file, g_env, g_processor,
                    g_written >>

\* with client.transaction(): client.put_multi(entities), and the return;
\* the exception of a failed write is caught by the outer except clause
IngestWrite ==
    /\ pc = "g_write"
    /\ IF g_env.put = "ok"
       THEN /\ g_written' = g_written \o g_entities
            /\ calls' = Append(calls, Call(0, "put_multi", TRUE))
            /\ logged' = logged \o
                   << Entry("INFO", "Successfully ingested records into Datastore"),
                      Entry("INFO", "Successfully ingested entities into Datastore.") >>
       ELSE /\ g_written' = g_written
            /\ calls' = Append(calls, Call(0, "put_multi", FALSE))
            /\ logged' = logged \o
                   << Entry("ERROR", "Error ingesting data into Datastore"),
                      Entry("ERROR", "An error occurred during data ingestion") >>
    /\ pc' = "g_done"
    /\ UNCHANGED << ctorVars, parserVars, stageVars, raw_data_list, storeScript,
                    endpointScript, vertex_processor, pubsub_topic, i,
                    item_result, exc, batch_results, success_count, error_count,
                    trace, datastore, t_raw, t_ret, g_file, g_env, g_processor,
                    g_i, g_entities >>

NextIngest == IngestStart \/ IngestItem \/ IngestWrite

SpecIngest == InitIngest /\ [][NextIngest]_vars

---------------------------------------------------------------------------
(* The claims.                                                             *)

\* the outcome of record k has been appended
Appended == 1..Len(batch_results)

\* the positions in calls of the invocations of the stages ops for record k
CallsOf(k, ops) ==
    {c \in 1..Len(calls) : calls[c].item = k /\ calls[c].op \in ops}

\* transform_data raised for record k
TransformFailed(k) ==
    \E c \in CallsOf(k, {"transform"}) : ~calls[c].ok

\* raw is a record the transformer's contract accepts: the four required
\* fields, a payload size int() converts and, when given, a threat score
\* float() converts
ValidRecord(raw) ==
    /\ {"source_ip", "destination_ip", "protocol", "payload_size"} \subseteq DOMAIN raw
    /\ ~Raised(PyInt(raw["payload_size"]).exc)
    /\ "threat_score" \in DOMAIN raw => ~Raised(PyFloat(raw["threat_score"]).exc)

\* C1: when process_batch has returned, the items counted successful plus
\* the items counted failed are the input records.
C1_CountsAddUp ==
    pc = "returned" => success_count + error_count = Len(raw_data_list)

\* a batch of two records has returned with a failure counted
C1_Witness ==
    pc = "returned" /\ Len(raw_data_list) >= 2 /\ error_count >= 1

\* C2: process_batch returns one outcome per input record, the outcome at
\* position k being the one built for the record at position k.
C2_OutcomePerRecordInOrder ==
    pc = "returned" =>
        /\ Len(batch_results) = Len(raw_data_list)
        /\ \A k \in Appended : batch_results[k].item = k

\* a batch of two records with different outcomes has returned
C2_Witness ==
    /\ pc = "returned"
    /\ Len(batch_results) = 2
    /\ batch_results[1].error # batch_results[2].error

\* C3: no exception of an item leaves process_batch: the failure is recorded
\* in the item's outcome and the remaining records are processed.
C3_ItemFailureNeverPropagates ==
    /\ pc # "raised"
    /\ pc = "returned" =>
          \A k \in 1..Len(raw_data_list) :
              /\ CallsOf(k, {"transform"}) # {}
              /\ k \in Appended
              /\ TransformFailed(k) =>
                    /\ ~batch_results[k].success
                    /\ batch_results[k].error # NoneV

\* the first of two records failed with an exception transform_data does
\* not catch, and the batch returned
C3_Witness ==
    /\ pc = "returned"
    /\ Len(batch_results) = 2
    /\ TransformFailed(1)
    /\ batch_results[1].error.s[1] = "'PipelineLogger' object has no attribute"

C6_TransformFailureSkipsStages ==
    /\ pc # "raised"
    /\ \A k \in Appended :
          TransformFailed(k) =>
              /\ CallsOf(k, {"put", "predict", "post", "publish", "update"}) = {}
              /\ ~batch_results[k].success
              /\ batch_results[k].error.tag = "str"
              /\ batch_results[k].error.s # << >>
              /\ batch_results[k].datastore_key = NoneV
              /\ (pc = "returned" /\ k < Len(raw_data_list)) =>
                     CallsOf(k + 1, {"transform"}) # {}

\* the first of two records failed in transform_data for a missing field
\* and the second was transformed after it
C6_Witness ==
    /\ pc = "returned"
    /\ Len(raw_data_list) = 2
    /\ MissingFields(raw_data_list[1]) # << >>
    /\ TransformFailed(1)
    /\ CallsOf(2, {"transform"}) # {}

PredictionStages == {"predicted", "prediction-skipped", "prediction-failed"}

C9_BatchRunsToCompletion ==
    <>(pc = "returned" /\ Len(batch_results) = Len(raw_data_list))

\* a batch of two records has run to its return, the loop index past the list
C9_Witness ==
    pc = "returned" /\ Len(raw_data_list) = 2 /\ i = 3 /\ Len(batch_results) = 2

\* C10: transform_data fails on a record that lacks required fields with a
\* ValueError whose message names every one of the missing fields.
C10_EveryMissingFieldNamed ==
    pc = "t_done" =>
        \A f \in {"source_ip", "destination_ip", "protocol", "payload_size"} :
            f \notin DOMAIN t_raw =>
                /\ t_ret.exc.kind = "ValueError"
                /\ \E j \in 1..Len(t_ret.exc.msg) : t_ret.exc.msg[j] = f

\* transform_data has failed on a record that lacks three required fields
C10_Witness ==
    /\ pc = "t_done"
    /\ Cardinality({"source_ip", "destination_ip", "protocol", "payload_size"}
                       \ DOMAIN t_raw) = 3
    /\ t_ret.exc.kind = "ValueError"

\* C11: transform_data succeeds on a record that has the four required
\* fields and no timestamp, and the storage record and the prediction record
\* it returns carry the same non-empty timestamp, the current time.
C11_MissingTimestampDefaulted ==
    (pc = "t_done" /\ ValidRecord(t_raw) /\ ~Has(t_raw, "timestamp")) =>
        /\ ~Raised(t_ret.exc)
        /\ Has(t_ret.datastore_data, "timestamp")
        /\ Has(t_ret.vertex_data, "timestamp")
        /\ t_ret.datastore_data["timestamp"] = NowV
        /\ t_ret.vertex_data["timestamp"] = t_ret.datastore_data["timestamp"]
        /\ t_ret.datastore_data["timestamp"].s # << >>

\* the entity stored for record k
StoredFor(k) == datastore[batch_results[k].datastore_key.n]

\* C12: a record transform_data accepts is stored with its four required
\* fields, the protocol in upper case and the payload size an integer, and
\* when the store accepts the write its outcome has success true.
C12_StoredRecordNormalised ==
    \A k \in Appended :
        (ValidRecord(raw_data_list[k]) /\ storeScript[k] = "ok") =>
            /\ batch_results[k].success
            /\ batch_results[k].datastore_key.tag = "int"
            /\ batch_results[k].datastore_key.n \in 1..Len(datastore)
            /\ {"source_ip", "destination_ip", "protocol", "payload_size"}
                   \subseteq DOMAIN StoredFor(k)
            /\ \A c \in 1..Len(StoredFor(k)["protocol"].s) :
                   \A l \in 1..Len(LowerChars) :
                       StoredFor(k)["protocol"].s[c] # LowerChars[l]
            /\ StoredFor(k)["payload_size"].tag = "int"
            /\ StoredFor(k)["payload_size"].n
                   = PyInt(raw_data_list[k]["payload_size"]).val

\* C13: transform_data fails on a record whose payload size int() does not
\* convert with the error kind of a missing field, ValueError.
C13_BadPayloadIsValidationError ==
    ( /\ pc = "t_done"
      /\ MissingFields(t_raw) = << >>
      /\ Raised(PyInt(t_raw["payload_size"]).exc) )
    => t_ret.exc.kind = "ValueError"

\* C14: process_batch on an empty list returns an empty outcome list, does
\* not raise, calls neither the transformer, the storage writer, the
\* prediction client nor the publisher, and logs the warning only.
C14_EmptyBatchReturnsEmpty ==
    raw_data_list = << >> =>
        /\ pc # "raised"
        /\ batch_results = << >>
        /\ calls = << >>
        /\ datastore = << >>
        /\ pc = "returned" =>
               logged = << Entry("WARNING", "Received empty batch, nothing to process") >>

\* process_batch has returned from a call on the empty list
C14_Witness ==
    /\ pc = "returned"
    /\ raw_data_list = << >>
    /\ batch_results = << >>
    /\ Len(logged) = 1

\* what send_to_vertex_ai does with the record process_and_predict is given
Sent == send_to_vertex_ai(p_data, p_env.endpoint, 1)

\* C15: in process_and_predict with a topic, a publish that fails does not
\* fail the call: the prediction result is returned without a message id;
\* a publish that succeeds puts its message id on the result; without a
\* topic the publisher is not called.
C15_PublishFailureNotFatal ==
    pc = "p_done" =>
        /\ (~Raised(Sent.exc) /\ p_env.topic /\ p_env.publish = "fail") =>
               /\ ~Raised(p_ret.exc)
               /\ p_ret.result = Sent.result
               /\ HasPrediction(p_ret.result)
               /\ ~Has(p_ret.result, "pubsub_message_id")
        /\ (~Raised(Sent.exc) /\ p_env.topic /\ p_env.publish = "ok") =>
               /\ ~Raised(p_ret.exc)
               /\ Has(p_ret.result, "pubsub_message_id")
               /\ p_ret.result["pubsub_message_id"] = StrV(<<"m", "1">>)
               /\ p_ret.result["prediction"] = Sent.result["prediction"]
        /\ ~p_env.topic =>
               \A c \in 1..Len(p_ret.calls) : p_ret.calls[c].op # "publish"

\* process_and_predict has returned a prediction after its publish failed
C15_Witness ==
    /\ pc = "p_done"
    /\ p_env.topic
    /\ ~Raised(p_ret.exc)
    /\ HasPrediction(p_ret.result)
    /\ \E c \in 1..Len(p_ret.calls) :
          p_ret.calls[c].op = "publish" /\ ~p_ret.calls[c].ok

\* C16: every failure of the prediction client has the prediction-error
\* kind, and no failure of the storage writer has that kind, so that the
\* handler of the one never takes the other.
C16_PredictionErrorKindDistinct ==
    /\ (pc = "p_done" /\ Raised(p_ret.exc)) => IsVertexAIError(p_ret.exc)
    /\ (pc = "s_done" /\ Raised(s_ret.exc)) => ~IsVertexAIError(s_ret.exc)

\* C17: the prediction record transform_data builds for a record it accepts
\* passes the required-field validation of the prediction client, and with a
\* well-formed answer of the endpoint the client returns a prediction for it.
C17_PredictionRecordValidates ==
    (pc = "p_done" /\ p_data \in TransformedRecords /\ p_env.endpoint = "ok") =>
        /\ ~Raised(preprocess_data(p_data).exc)
        /\ ~Raised(p_ret.exc)
        /\ HasPrediction(p_ret.result)

\* e is an exception a call of a logger operation raised
LoggerRaised(e) ==
    \/ /\ e.kind = "AttributeError"
       /\ e.msg # << >>
       /\ e.msg[1] = "'PipelineLogger' object has no attribute"
    \/ /\ e.kind = "TypeError"
       /\ e.msg = <<"got multiple values for keyword argument">>

\* C18: no logger operation the pipeline invokes raises to its caller: the
\* exception an operation of the pipeline ends with is never one a logging
\* call raised.
C18_LoggingNeverRaises ==
    /\ ~LoggerRaised(exc)
    /\ ~LoggerRaised(t_ret.exc)

C20_AppendedOutcomesImmutable ==
    [][\A k \in 1..Len(batch_results) :
           /\ k <= Len(batch_results')
           /\ batch_results'[k] = batch_results[k]]_vars

\* the second record has failed while the outcome of the first is in the
\* batch result
C20_Witness ==
    /\ pc = "except"
    /\ i = 2
    /\ Len(batch_results) = 1
    /\ Raised(exc)

C22_NoStageRetried ==
    \A k \in 1..Len(raw_data_list) :
        /\ Cardinality(CallsOf(k, {"transform"})) <= 1
        /\ Cardinality(CallsOf(k, {"put"})) <= 1
        /\ Cardinality(CallsOf(k, {"predict"})) <= 1
        /\ Cardinality(CallsOf(k, {"post"})) <= 1

\* the transformer failed on the first record, was invoked once for it, and
\* the batch went on to its end
C22_Witness ==
    /\ pc = "returned"
    /\ Len(raw_data_list) = 2
    /\ TransformFailed(1)
    /\ Cardinality(CallsOf(1, {"transform"})) = 1
    /\ Cardinality(CallsOf(2, {"transform"})) = 1

\* C28: in every outcome of process_batch success is true exactly when
\* error is null.
C28_SuccessIffNoError ==
    \A k \in Appended :
        batch_results[k].success <=> (batch_results[k].error = NoneV)

\* process_batch has returned an outcome with success false and an error
C28_Witness ==
    /\ pc = "returned"
    /\ \E k \in Appended :
          /\ ~batch_results[k].success
          /\ batch_results[k].error.tag = "str"
          /\ batch_results[k].error.s # << >>

\* the storage write of record k succeeded
PutSucceeded(k) == \E c \in CallsOf(k, {"put"}) : calls[c].ok

C23_ConstructionFailsOnlyOnStorage ==
    pc = "c_done" =>
        /\ Raised(c_ret.exc) <=> (c_env.client = "fail")
        /\ (c_env.client = "ok" /\ VertexEnabled(c_env.config)
               /\ c_env.processor = "fail") => ~c_ret.vertex_processor

\* C26: the feature vector preprocess_data returns for a record it accepts
\* has one value for each of the fields it requires, in their order.
C26_EveryRequiredFieldSent ==
    (pc = "p_done" /\ ~Raised(preprocess_data(p_data).exc)) =>
        /\ Len(preprocess_data(p_data).features) = 1
        /\ Len(preprocess_data(p_data).features[1]) = Len(feature_fields)
        /\ \A k \in 1..Len(feature_fields) :
               preprocess_data(p_data).features[1][k]
                   = PyFloat(p_data[feature_fields[k]]).val

\* C24: for a file that can be read, parse_log_file returns a record with
\* feat1, feat2, feat3, feat4, the target label and a log_path field that is
\* the path it was given.
C24_ParsedRecordHasLogPath ==
    (pc = "l_parsed" /\ l_file.readable) =>
        /\ l_ret # NoneV
        /\ {"feat1", "feat2", "feat3", "feat4", "target"} \subseteq DOMAIN l_ret
        /\ "log_path" \in DOMAIN l_ret
        /\ l_ret["log_path"] = l_path

\* the path given has the word w in some case
PathHas(ws) == \E k \in 1..Len(l_path) : l_path[k] \in ws

\* C25: get_target_label takes the first rule that matches the path in lower
\* case: 1 for attack_techniques or malware, else 0 for honeypots, else 1
\* for suspicious_behaviour, else 0.
C25_FirstMatchingRule ==
    pc = "l_labelled" =>
        l_label =
            IF PathHas({"attack_techniques", "Attack_Techniques", "malware", "Malware"})
            THEN 1
            ELSE IF PathHas({"honeypots", "HONEYPOTS"}) THEN 0
            ELSE IF PathHas({"suspicious_behaviour"}) THEN 1
            ELSE 0

\* a path with both malware and honeypots in it was labelled 1
C25_Witness ==
    /\ pc = "l_labelled"
    /\ PathHas({"Malware"})
    /\ PathHas({"honeypots", "HONEYPOTS"})
    /\ l_label = 1

\* C27: when the status check finds no active instance or fails, ingest_data
\* returns without creating an entity and without writing to the store.
C27_NoIngestWithoutInstance ==
    g_env.status \in {"none", "error"} =>
        /\ g_entities = << >>
        /\ g_written = << >>
        /\ \A c \in 1..Len(calls) : calls[c].op # "put_multi"

\* the prediction or the publish of an item of the file failed
ItemFailed ==
    \E c \in 1..Len(calls) : calls[c].op \in {"post", "publish"} /\ ~calls[c].ok

\* C30: in ingest_data a prediction or a publish that fails for an item
\* keeps neither that item nor another out of the one transactional write
\* after the loop, and ingest_data does not raise.
C30_PredictionFailureKeepsItems ==
    /\ pc # "g_raised"
    /\ pc = "g_write" => g_entities = g_file.data
    /\ ( /\ pc = "g_done"
         /\ g_env.client = "ok"
         /\ SupportedFormat(g_file.format)
         /\ g_env.put = "ok" ) => g_written = g_file.data

\* two items were written in one write after the prediction or the publish
\* of one of them failed
C30_Witness ==
    /\ pc = "g_done"
    /\ Len(g_file.data) = 2
    /\ g_written = g_file.data
    /\ ItemFailed

===========================================================================
